---- MODULE Spec2Model ----
(***************************************************************************)
(* Cartridge-side memory subsystem of farore: the MBC1 bank controller,    *)
(* the 2 KiB external RAM and the GBMemory address bus of src/src/mbc.rs,  *)
(* the unswitched controller drafted there, and the cartridge header       *)
(* parsers of src/src/cart.rs and src/src/cartridge.rs.                    *)
(*                                                                         *)
(* A Rust array is modelled by its non-zero cells: a function from the     *)
(* indices that hold a non-zero byte to that byte.  Every array of the     *)
(* source starts zeroed, so the empty function is the fresh array, and the *)
(* array's length is checked where the source indexes it.                  *)
(*                                                                         *)
(* A call ends "ok" or with one of the aborts of the source: "panic"       *)
(* (panic!), "unimplemented" (unimplemented!()), "unreachable"             *)
(* (unreachable!()), "index_out_of_bounds" (the bounds check of an array   *)
(* index) or "unmatched" (a match none of whose arms covers the value).    *)
(* An abort ends the session: no operation follows it.                     *)
(***************************************************************************)
EXTENDS Integers, FiniteSets, Sequences, TLC

VARIABLES mbc, vram, wram, hram, status, last, unswitched, program, meta

vars == <<mbc, vram, wram, hram, status, last, unswitched, program, meta>>

(***************************************************************************)
(* u8 / u16 arithmetic of the source.                                      *)
(***************************************************************************)
RECURSIVE BitAnd(_, _)
BitAnd(a, b) ==
    IF a = 0 \/ b = 0 THEN 0
    ELSE (a % 2) * (b % 2) + 2 * BitAnd(a \div 2, b \div 2)

RECURSIVE BitOr(_, _)
BitOr(a, b) ==
    IF a = 0 THEN b
    ELSE IF b = 0 THEN a
    ELSE (IF a % 2 = 1 \/ b % 2 = 1 THEN 1 ELSE 0) + 2 * BitOr(a \div 2, b \div 2)

\* mask << 5 on a u8
Shl5_by6(a) == (a * 64) % 256

Shl5(a) == (a * 32) % 256

(***************************************************************************)
(* Arrays: zero-initialised, fixed length, stored by their non-zero cells. *)
(***************************************************************************)
EmptyArray == << >>

ArrGet(arr, i) == IF i \in DOMAIN arr THEN arr[i] ELSE 0

ArrSet(arr, i, v) ==
    LET dom == IF v = 0 THEN DOMAIN arr \ {i} ELSE DOMAIN arr \cup {i}
    IN  [j \in dom |-> IF j = i THEN v ELSE arr[j]]

Ram2kbLen == \h800
RomBankLen == \h4000
RomBankCount == \h80
VramLen == \h2000
WramLen == \h2000
HramLen == \h80

(***************************************************************************)
(* Ram2kb: the only Ram of the source.                                     *)
(***************************************************************************)
Ram2kb_new == EmptyArray

\* Ram2kb::read(bank, address): [status, value]
Ram2kb_read(memory, bank, address) ==
    IF address > Ram2kbLen THEN [status |-> "panic", value |-> -1]
    ELSE IF bank # 0 THEN [status |-> "panic", value |-> -1]
    ELSE IF address >= Ram2kbLen THEN [status |-> "index_out_of_bounds", value |-> -1]
    ELSE [status |-> "ok", value |-> ArrGet(memory, address)]

\* Ram2kb::write(bank, address, value): [status, memory]
Ram2kb_write(memory, bank, address, value) ==
    IF address > Ram2kbLen THEN [status |-> "panic", memory |-> memory]
    ELSE IF bank # 0 THEN [status |-> "panic", memory |-> memory]
    ELSE IF address >= Ram2kbLen THEN [status |-> "index_out_of_bounds", memory |-> memory]
    ELSE [status |-> "ok", memory |-> ArrSet(memory, address, value)]

\* Ram2kb::load(mem): [status, memory].  The body is unimplemented!(): the
\* call aborts for every mem and no Ram2kb is made.
Ram2kb_load(mem) == [status |-> "unimplemented", memory |-> EmptyArray]

\* Ram2kb::serialize(): [status, bytes].  The body is unimplemented!().
Ram2kb_serialize(memory) == [status |-> "unimplemented", bytes |-> << >>]

(***************************************************************************)
(* MBC1                                                                    *)
(***************************************************************************)
MBC1_new_enabled(ram) ==
    [ rom_banks           |-> EmptyArray,
      rom_bank_number     |-> 1,
      ram_bank            |-> ram,
      ram_bank_number     |-> 0,
      ram_write_enabled   |-> TRUE,
      is_rom_banking_mode |-> TRUE ]

MBC1_new(ram) ==
    [ rom_banks           |-> EmptyArray,   \* cells keyed <<bank, offset>>
      rom_bank_number     |-> 1,
      ram_bank            |-> ram,
      ram_bank_number     |-> 0,
      ram_write_enabled   |-> FALSE,
      is_rom_banking_mode |-> TRUE ]

\* The arms of the match in set_rom_bank: the set holding the arm's value,
\* empty when no arm covers the bank.
real_bank(bank) ==
    CASE bank = \h00 -> {\h01}
      [] bank = \h20 -> {\h21}
      [] bank = \h40 -> {\h41}
      [] OTHER       -> {}

\* MBC1::set_rom_bank: the outcomes [status, self].  The match has three arms
\* and no catch-all.  For a bank that no arm covers the source says nothing
\* of what is stored: both readings are kept, the value passing through as
\* the field comments describe (0x01-0x1F select themselves), and control
\* reaching no arm.
set_rom_bank(self, bank) ==
    IF real_bank(bank) # {}
    THEN { [status |-> "ok", self |-> [self EXCEPT !.rom_bank_number = b]] :
             b \in real_bank(bank) }
    ELSE { [status |-> "ok", self |-> [self EXCEPT !.rom_bank_number = bank]],
           [status |-> "unmatched", self |-> self] }

\* self.rom_banks[bank][offset], with the bounds checks of both indexings
RomCell(self, bank, offset) ==
    IF bank >= RomBankCount \/ offset >= RomBankLen
    THEN [status |-> "index_out_of_bounds", value |-> -1, store |-> "rom",
          bank |-> bank, offset |-> offset]
    ELSE [status |-> "ok", value |-> ArrGet(self.rom_banks, <<bank, offset>>),
          store |-> "rom", bank |-> bank, offset |-> offset]

\* the bank index of the low window 0x0000..0x4000: self.rom_banks[0]
LowWindowBank_selected(self) == self.rom_bank_number

LowWindowBank(self) == 0

\* the bank index of the high window 0x4000..0x8000:
\* self.rom_banks[self.rom_bank_number as usize]
HighWindowBank_static(self) == 1

HighWindowBank(self) == self.rom_bank_number

\* MBC1::read: [status, value, store, bank, offset]; store, bank and offset
\* name the cell the source indexes.
MBC1_read(self, address) ==
    CASE address < \h4000 -> RomCell(self, LowWindowBank(self), address)
      [] address >= \h4000 /\ address < \h8000 ->
           RomCell(self, HighWindowBank(self), address - \h4000)
      [] address >= \hA000 /\ address < \hC000 ->
           LET r == Ram2kb_read(self.ram_bank, self.ram_bank_number,
                                address - \hA000)
           IN  [status |-> r.status, value |-> r.value, store |-> "ram",
                bank |-> self.ram_bank_number, offset |-> address - \hA000]
      [] OTHER ->
           [status |-> "unreachable", value |-> -1, store |-> "none",
            bank |-> -1, offset |-> -1]

\* The match on value of the 0x6000..0x8000 arm of MBC1::write.
ModeSelect_keepHigh(self, value) ==
    CASE value = \h00 ->
           { [status |-> "ok",
              self |-> [self EXCEPT !.is_rom_banking_mode = TRUE,
                                    !.ram_bank_number = 0]] }
      [] value = \h01 ->
           { [status |-> "ok",
              self |-> [self EXCEPT !.is_rom_banking_mode = FALSE]] }
      [] OTHER ->
           { [status |-> "unreachable", self |-> self] }

ModeSelect(self, value) ==
    CASE value = \h00 ->
           { [status |-> "ok",
              self |-> [self EXCEPT !.is_rom_banking_mode = TRUE,
                                    !.ram_bank_number = 0]] }
      [] value = \h01 ->
           { [status |-> "ok",
              self |-> [self EXCEPT !.is_rom_banking_mode = FALSE,
                                    !.rom_bank_number =
                                        BitAnd(self.rom_bank_number, \h1F)]] }
      [] OTHER ->
           { [status |-> "unreachable", self |-> self] }

\* the latch value of the 0x0000..0x2000 arm: value & 0xF == 0xA
RamEnable_exact(value) == value = \h0A

RamEnable(value) == BitAnd(value, \h0F) = \h0A

\* UnswitchedController::write, the commented-out controller of
\* mbc.rs:145-147, in the place of MBC1::write: every write is stored in
\* the image.
MBC1_write_unswitched(self, address, value) ==
    { [status |-> "ok",
       self |-> [self EXCEPT !.rom_banks =
                    ArrSet(self.rom_banks,
                           <<address \div RomBankLen, address % RomBankLen>>,
                           value)]] }

\* MBC1::write: the outcomes [status, self].
MBC1_write(self, address, value) ==
    CASE address < \h2000 ->
           { [status |-> "ok",
              self |-> [self EXCEPT !.ram_write_enabled = RamEnable(value)]] }
      [] address >= \h2000 /\ address < \h4000 ->
           LET oldnum == BitAnd(self.rom_bank_number, \hE0)
               req    == BitAnd(value, \h1F)
           IN  set_rom_bank(self, BitOr(oldnum, req))
      [] address >= \h4000 /\ address < \h6000 ->
           LET mask == BitAnd(value, \h03)
           IN  IF self.is_rom_banking_mode
               THEN LET oldval == BitAnd(self.rom_bank_number, \h1F)
                    IN  set_rom_bank(self, BitOr(oldval, Shl5(mask)))
               ELSE { [status |-> "ok",
                       self |-> [self EXCEPT !.ram_bank_number = mask]] }
      [] address >= \h6000 /\ address < \h8000 -> ModeSelect(self, value)
      [] address >= \hA000 /\ address < \hC000 ->
           IF ~self.ram_write_enabled
           THEN { [status |-> "panic", self |-> self] }
           ELSE LET w == Ram2kb_write(self.ram_bank, self.ram_bank_number,
                                      address - \hA000, value)
                IN  { [status |-> w.status,
                       self |-> [self EXCEPT !.ram_bank = w.memory]] }
      [] OTHER ->
           { [status |-> "unreachable", self |-> self] }

(***************************************************************************)
(* GBMemory: the address bus.  A Rust range pattern a..b excludes b.       *)
(***************************************************************************)
GBMemory_new(m) ==
    [mbc |-> m, vram |-> EmptyArray, wram |-> EmptyArray, hram |-> EmptyArray]

\* the work RAM index of an echo address: addr-0xE000
EchoIndex_unshifted(address) == address - \hC000

EchoIndex(address) == address - \hE000

NoCell(st) ==
    [status |-> st, value |-> -1, store |-> "none", bank |-> -1, offset |-> -1]

Cell(arr, len, name, i) ==
    IF i >= len
    THEN [status |-> "index_out_of_bounds", value |-> -1, store |-> name,
          bank |-> 0, offset |-> i]
    ELSE [status |-> "ok", value |-> ArrGet(arr, i), store |-> name,
          bank |-> 0, offset |-> i]

\* GBMemory::read: [status, value, store, bank, offset]
GBMemory_read(self, address) ==
    CASE address < \h8000 -> MBC1_read(self.mbc, address)
      [] address >= \h8000 /\ address < \hA000 ->
           Cell(self.vram, VramLen, "vram", address - \h8000)
      [] address >= \hA000 /\ address < \hC000 -> MBC1_read(self.mbc, address)
      [] address >= \hC000 /\ address < \hE000 ->
           Cell(self.wram, WramLen, "wram", address - \hC000)
      [] address >= \hE000 /\ address < \hFE00 ->
           Cell(self.wram, WramLen, "wram", EchoIndex(address))
      [] address >= \hFE00 /\ address < \hFEA0 -> NoCell("unimplemented")
      [] address >= \hFEA0 /\ address < \hFF00 -> NoCell("unimplemented")
      [] address >= \hFF00 /\ address < \hFF80 -> NoCell("unimplemented")
      [] address >= \hFF80 /\ address < \hFFFE ->
           Cell(self.hram, HramLen, "hram", address - \hFF80)
      [] address = \hFFFF -> NoCell("unimplemented")
      [] OTHER -> NoCell("unmatched")

Store(self, field, len, i, value) ==
    IF i >= len
    THEN { [status |-> "index_out_of_bounds", self |-> self] }
    ELSE { [status |-> "ok",
            self |-> [self EXCEPT ![field] = ArrSet(self[field], i, value)]] }

Delegate(self, address, value) ==
    { [status |-> o.status, self |-> [self EXCEPT !.mbc = o.self]] :
        o \in MBC1_write(self.mbc, address, value) }

\* GBMemory::write: the outcomes [status, self]
GBMemory_write(self, address, value) ==
    CASE address < \h8000 -> Delegate(self, address, value)
      [] address >= \h8000 /\ address < \hA000 ->
           Store(self, "vram", VramLen, address - \h8000, value)
      [] address >= \hA000 /\ address < \hC000 -> Delegate(self, address, value)
      [] address >= \hC000 /\ address < \hE000 ->
           Store(self, "wram", WramLen, address - \hC000, value)
      [] address >= \hE000 /\ address < \hFE00 ->
           Store(self, "wram", WramLen, EchoIndex(address), value)
      [] address >= \hFE00 /\ address < \hFEA0 ->
           { [status |-> "unimplemented", self |-> self] }
      [] address >= \hFEA0 /\ address < \hFF00 ->
           { [status |-> "unimplemented", self |-> self] }
      [] address >= \hFF00 /\ address < \hFF80 ->
           { [status |-> "unimplemented", self |-> self] }
      [] address >= \hFF80 /\ address < \hFFFE ->
           Store(self, "hram", HramLen, address - \hFF80, value)
      [] address = \hFFFF ->
           { [status |-> "unimplemented", self |-> self] }
      [] OTHER ->
           { [status |-> "unmatched", self |-> self] }

(***************************************************************************)
(* UnswitchedController: the controller without bank switching, kept in    *)
(* mbc.rs as a commented-out draft.  It has no constructor; its memory is  *)
(* one array of u16::MAX = 0xFFFF bytes indexed by the address itself.     *)
(***************************************************************************)
UnswitchedLen == \hFFFF

\* UnswitchedController::read(address): [status, value]
Unswitched_read(self, address) ==
    IF address >= UnswitchedLen
    THEN [status |-> "index_out_of_bounds", value |-> -1]
    ELSE [status |-> "ok", value |-> ArrGet(self.memory, address)]

\* UnswitchedController::write(address, value): [status, self]
Unswitched_write(self, address, value) ==
    IF address >= UnswitchedLen
    THEN [status |-> "index_out_of_bounds", self |-> self]
    ELSE [status |-> "ok",
          self |-> [self EXCEPT !.memory = ArrSet(self.memory, address, value)]]

(***************************************************************************)
(* The cartridge header: GameboyProgramMeta of cart.rs (the parser that    *)
(* returns a Result) and of cartridge.rs (the earlier parser).  A program  *)
(* image is [len, bytes]: its length and its non-zero bytes.  A parse ends *)
(* "Ok", "Err" (cart.rs only: the Err it returns) or                       *)
(* "index_out_of_bounds" (the panic of an index or slice past the end).    *)
(* The flag fields, which are copies of one byte each, are kept out of the *)
(* record; the fields the validity checks read are all there.              *)
(***************************************************************************)
Byte(p, i) == ArrGet(p.bytes, i)

\* &program[lo..hi], hi excluded
Slice(p, lo, hi) == [i \in 1 .. (hi - lo) |-> Byte(p, lo + i - 1)]

NINTENDO_BITMAP_EXPECTED ==
    << \hCE, \hED, \h66, \h66, \hCC, \h0D, \h00, \h0B,
       \h03, \h73, \h00, \h83, \h00, \h0C, \h00, \h0D,
       \h00, \h08, \h11, \h1F, \h88, \h89, \h00, \h0E,
       \hDC, \hCC, \h6E, \hE6, \hDD, \hDD, \hD9, \h99,
       \hBB, \hBB, \h67, \h63, \h6E, \h0E, \hEC, \hCC,
       \hDD, \hDC, \h99, \h9F, \hBB, \hB9, \h33, \h3E >>

LOGO_BITMAP_HASH ==
    << \h07, \h45, \hFD, \hEF, \h34, \h13, \h2D, \h1B, \h3D, \h48,
       \h8C, \hFB, \hDF, \h03, \h79, \hA3, \h9F, \hD5, \h4B, \h4C >>

\* sha1::Sha1::from(bytes).digest().bytes().  SHA-1 is not computed here:
\* LOGO_BITMAP_HASH is the SHA-1 digest of NINTENDO_BITMAP_EXPECTED, and
\* every other input is given a digest that differs from it (no second
\* preimage of that digest is assumed to occur among the inputs).
Sha1Digest(bytes) ==
    IF bytes = NINTENDO_BITMAP_EXPECTED
    THEN LOGO_BITMAP_HASH
    ELSE [i \in 1 .. 20 |-> 256]

\* the number of bytes calculate_header_checksum takes after skip(0x0134)
HdrTake_short == \h014C - \h0134

HdrTake == \h014C - \h0134 + 1

\* the fold of calculate_header_checksum from index i on, Wrapping<u8>
RECURSIVE HeaderFold(_, _, _, _)
HeaderFold(p, i, n, acc) ==
    IF n = 0 \/ i >= p.len
    THEN acc
    ELSE HeaderFold(p, i + 1, n - 1, (acc + 512 - Byte(p, i) - 1) % 256)

calculate_header_checksum(p) == HeaderFold(p, \h0134, HdrTake, 0)

\* the fold of calculate_global_checksum over the cells of `pending`,
\* Wrapping<u16>; a zero byte adds nothing, so the non-zero cells are enough
RECURSIVE GlobalFold(_, _, _)
GlobalFold(p, pending, acc) ==
    IF pending = {}
    THEN acc
    ELSE LET i == CHOOSE j \in pending : TRUE
         IN  GlobalFold(p, pending \ {i}, (acc + p.bytes[i]) % 65536)

calculate_global_checksum(p) ==
    GlobalFold(p, DOMAIN p.bytes \ { \h014E, \h014F }, 0)

\* the bytes before the first zero byte
RECURSIVE UntilZero(_)
UntilZero(s) ==
    IF s = << >> \/ Head(s) = 0 THEN << >> ELSE <<Head(s)>> \o UntilZero(Tail(s))

IsCont(b) == b >= \h80 /\ b <= \hBF

\* ::std::str::from_utf8(s).is_ok()
RECURSIVE Utf8Valid(_)
Utf8Valid(s) ==
    IF s = << >>
    THEN TRUE
    ELSE LET b == Head(s)
             n == Len(s)
         IN  CASE b < \h80 -> Utf8Valid(Tail(s))
               [] b >= \hC2 /\ b <= \hDF ->
                    /\ n >= 2
                    /\ IsCont(s[2])
                    /\ Utf8Valid(SubSeq(s, 3, n))
               [] b >= \hE0 /\ b <= \hEF ->
                    /\ n >= 3
                    /\ IsCont(s[2])
                    /\ b = \hE0 => s[2] >= \hA0
                    /\ b = \hED => s[2] <= \h9F
                    /\ IsCont(s[3])
                    /\ Utf8Valid(SubSeq(s, 4, n))
               [] b >= \hF0 /\ b <= \hF4 ->
                    /\ n >= 4
                    /\ IsCont(s[2])
                    /\ b = \hF0 => s[2] >= \h90
                    /\ b = \hF4 => s[2] <= \h8F
                    /\ IsCont(s[3])
                    /\ IsCont(s[4])
                    /\ Utf8Valid(SubSeq(s, 5, n))
               [] OTHER -> FALSE

\* bufstr(buf): [ok, str]
bufstr(buf) ==
    LET chars == UntilZero(buf)
    IN  [ok |-> Utf8Valid(chars), str |-> chars]

\* l_code: the licensee code of both parsers
l_code_swapped(p) ==
    IF Byte(p, \h014B) = \h33
    THEN << Byte(p, \h0145), Byte(p, \h0144) >>
    ELSE << Byte(p, \h014B) >>

l_code(p) ==
    IF Byte(p, \h014B) = \h33
    THEN << Byte(p, \h0144), Byte(p, \h0145) >>
    ELSE << Byte(p, \h014B) >>

\* BigEndian::read_u16(&program[0x14E..0x150])
BigEndian_read_u16(p) == Byte(p, \h014E) * 256 + Byte(p, \h014F)

\* program[0x014E] as u16 | ((program[0x014F] as u16) << 8)
LittleEndian_u16(p) == Byte(p, \h014E) + Byte(p, \h014F) * 256

MetaNone ==
    [ parser |-> "none", result |-> "none", name |-> << >>,
      licensee_code |-> << >>, header_checksum |-> -1, global_checksum |-> -1,
      header_checksum_calculated |-> -1, global_checksum_calculated |-> -1,
      logo_bitmap |-> << >>, program_size |-> -1 ]

MetaAbort(parser, result) ==
    [MetaNone EXCEPT !.parser = parser, !.result = result]

\* the minimum length every index and slice of the parsers is within
HeaderEnd == \h0150

\* GameboyProgramMeta::new of cart.rs
Cart_new(p) ==
    IF p.len <= \h014B
    THEN MetaAbort("cart", "index_out_of_bounds")            \* program[0x014B]
    ELSE LET name == bufstr(Slice(p, \h0134, \h0143))
         IN  IF ~name.ok
             THEN MetaAbort("cart", "Err")                     \* bufstr(..)?
             ELSE IF p.len < HeaderEnd
             THEN MetaAbort("cart", "index_out_of_bounds")   \* program[0x014C] ..
             ELSE [ parser |-> "cart", result |-> "Ok",
                    name |-> name.str,
                    licensee_code |-> l_code(p),
                    header_checksum |-> Byte(p, \h014D),
                    global_checksum |-> BigEndian_read_u16(p),
                    header_checksum_calculated |-> calculate_header_checksum(p),
                    global_checksum_calculated |-> calculate_global_checksum(p),
                    logo_bitmap |-> Slice(p, \h0104, \h0104 + 48),
                    program_size |-> p.len ]

\* GameboyProgramMeta::new of cartridge.rs
Cartridge_new(p) ==
    IF p.len < HeaderEnd
    THEN MetaAbort("cartridge", "index_out_of_bounds")
    ELSE [ parser |-> "cartridge", result |-> "Ok",
           name |-> UntilZero(Slice(p, \h0134, \h0143 + 1)),
           licensee_code |-> l_code(p),
           header_checksum |-> Byte(p, \h014D),
           global_checksum |-> LittleEndian_u16(p),
           header_checksum_calculated |-> calculate_header_checksum(p),
           global_checksum_calculated |-> calculate_global_checksum(p),
           logo_bitmap |-> Slice(p, \h0104, \h0104 + 48),
           program_size |-> p.len ]

\* is_valid_logo: by SHA-1 digest in cart.rs, byte for byte in cartridge.rs
is_valid_logo(m) ==
    IF m.parser = "cart"
    THEN /\ Len(m.logo_bitmap) = 48
         /\ Sha1Digest(m.logo_bitmap) = LOGO_BITMAP_HASH
    ELSE m.logo_bitmap = NINTENDO_BITMAP_EXPECTED

is_valid_header(m) == m.header_checksum = m.header_checksum_calculated

is_valid_program(m) == m.global_checksum = m.global_checksum_calculated

is_runable_header_only(m) == is_valid_header(m)

is_runable(m) == is_valid_header(m) /\ is_valid_logo(m)

(***************************************************************************)
(* The session: one bus owning one MBC1 over a Ram2kb, driven in program   *)
(* order.  Addresses are the two ends of every range of the decoders (and  *)
(* the first address past each), values the bytes the decoders tell apart. *)
(***************************************************************************)
MbcAddrs ==
    { \h0000, \h1FFF, \h2000, \h3FFF, \h4000, \h5FFF, \h6000, \h7FFF,
      \h8000, \hA000, \hA7FF, \hA800, \hBFFF, \hC000 }

MbcValues == { \h00, \h01, \h03, \h2A }

BusAddrs ==
    { \h0000, \h7FFF, \h8000, \h9FFF, \hA000, \hBFFF,
      \hC000, \hDDFF, \hDFFF, \hE000, \hFDFF, \hFE00, \hFE9F, \hFEA0,
      \hFEFF, \hFF00, \hFF7F, \hFF80, \hFFFD, \hFFFE, \hFFFF }

BusValues == { \h00, \h0A }

Self == [mbc |-> mbc, vram |-> vram, wram |-> wram, hram |-> hram]

\* no unswitched controller and no program image in the session
NoController == [memory |-> EmptyArray]

NoProgram == [len |-> 0, bytes |-> EmptyArray]

InitBus ==
    LET g == GBMemory_new(MBC1_new(Ram2kb_new))
    IN  /\ mbc = g.mbc
        /\ vram = g.vram
        /\ wram = g.wram
        /\ hram = g.hram
        /\ status = "ok"
        /\ last = [op |-> "none", via |-> "none", address |-> -1, value |-> -1,
                   store |-> "none", bank |-> -1, offset |-> -1, pre |-> g.mbc]

Init ==
    /\ InitBus
    /\ unswitched = NoController
    /\ program = NoProgram
    /\ meta = MetaNone

\* a call of MBC1::write on the controller
MbcWrite ==
    /\ status = "ok"
    /\ \E address \in MbcAddrs, value \in MbcValues :
         \E o \in MBC1_write(mbc, address, value) :
            /\ mbc' = o.self
            /\ status' = o.status
            /\ last' = [op |-> "write", via |-> "mbc", address |-> address,
                        value |-> value, store |-> "none", bank |-> -1,
                        offset |-> -1, pre |-> mbc]
    /\ UNCHANGED <<vram, wram, hram, unswitched, program, meta>>

\* a call of MBC1::read on the controller
MbcRead ==
    /\ status = "ok"
    /\ \E address \in MbcAddrs :
         LET r == MBC1_read(mbc, address)
         IN  /\ status' = r.status
             /\ last' = [op |-> "read", via |-> "mbc", address |-> address,
                         value |-> r.value, store |-> r.store, bank |-> r.bank,
                         offset |-> r.offset, pre |-> mbc]
    /\ UNCHANGED <<mbc, vram, wram, hram, unswitched, program, meta>>

\* a call of GBMemory::write
BusWrite ==
    /\ status = "ok"
    /\ \E address \in BusAddrs, value \in BusValues :
         \E o \in GBMemory_write(Self, address, value) :
            /\ mbc' = o.self.mbc
            /\ vram' = o.self.vram
            /\ wram' = o.self.wram
            /\ hram' = o.self.hram
            /\ status' = o.status
            /\ last' = [op |-> "write", via |-> "bus", address |-> address,
                        value |-> value, store |-> "none", bank |-> -1,
                        offset |-> -1, pre |-> mbc]
    /\ UNCHANGED <<unswitched, program, meta>>

\* a call of GBMemory::read
BusRead ==
    /\ status = "ok"
    /\ \E address \in BusAddrs :
         LET r == GBMemory_read(Self, address)
         IN  /\ status' = r.status
             /\ last' = [op |-> "read", via |-> "bus", address |-> address,
                         value |-> r.value, store |-> r.store, bank |-> r.bank,
                         offset |-> r.offset, pre |-> mbc]
    /\ UNCHANGED <<mbc, vram, wram, hram, unswitched, program, meta>>

Next == MbcWrite \/ MbcRead

Spec == Init /\ [][Next]_vars

NextBus == BusWrite \/ BusRead

SpecBus == Init /\ [][NextBus]_vars

(***************************************************************************)
(* The save session: the controller's session with, in addition, the RAM   *)
(* loaded from save data and serialized.  Save data is [len, bytes], its   *)
(* length and its non-zero bytes: empty, one byte short of the RAM, the    *)
(* RAM's length, and one byte longer.                                      *)
(***************************************************************************)
SaveData ==
    { [len |-> n, bytes |-> b] :
        n \in { 0, Ram2kbLen - 1, Ram2kbLen, Ram2kbLen + 1 },
        b \in { EmptyArray } } \cup
    { [len |-> n, bytes |-> (0 :> \h2A)] :
        n \in { Ram2kbLen - 1, Ram2kbLen, Ram2kbLen + 1 } }

\* a call of Ram2kb::load
RamLoad ==
    /\ status = "ok"
    /\ \E mem \in SaveData :
         LET l == Ram2kb_load(mem)
         IN  /\ status' = l.status
             /\ mbc' = IF l.status = "ok"
                       THEN [mbc EXCEPT !.ram_bank = l.memory]
                       ELSE mbc
             /\ last' = [op |-> "load", via |-> "ram", address |-> -1,
                         value |-> mem.len, store |-> "none", bank |-> -1,
                         offset |-> -1, pre |-> mbc]
    /\ UNCHANGED <<vram, wram, hram, unswitched, program, meta>>

\* a call of Ram2kb::serialize
RamSerialize ==
    /\ status = "ok"
    /\ LET z == Ram2kb_serialize(mbc.ram_bank)
       IN  /\ status' = z.status
           /\ last' = [op |-> "serialize", via |-> "ram", address |-> -1,
                       value |-> Len(z.bytes), store |-> "none", bank |-> -1,
                       offset |-> -1, pre |-> mbc]
    /\ UNCHANGED <<mbc, vram, wram, hram, unswitched, program, meta>>

NextSave == MbcWrite \/ MbcRead \/ RamLoad \/ RamSerialize

SpecSave == Init /\ [][NextSave]_vars

(***************************************************************************)
(* The unswitched session: an UnswitchedController holding a two-bank      *)
(* (32 KiB) image, driven in program order.                                *)
(***************************************************************************)
\* a 32 KiB image, by its non-zero bytes: the two ends of bank 0 and of
\* bank 1
TwoBankImage ==
    (\h0000 :> \hC3) @@ (\h3FFF :> \h01) @@ (\h4000 :> \hB1) @@ (\h7FFF :> \hB2)

UnswitchedAddrs ==
    { \h0000, \h2000, \h3FFF, \h4000, \h7FFF, \h8000, \hFFFE, \hFFFF }

UnswitchedValues == { \h00, \h0A }

InitUnswitched ==
    /\ InitBus
    /\ unswitched = [memory |-> TwoBankImage]
    /\ program = NoProgram
    /\ meta = MetaNone

\* a call of UnswitchedController::write
UnswitchedWrite ==
    /\ status = "ok"
    /\ \E address \in UnswitchedAddrs, value \in UnswitchedValues :
         LET w == Unswitched_write(unswitched, address, value)
         IN  /\ unswitched' = w.self
             /\ status' = w.status
             /\ last' = [op |-> "write", via |-> "unswitched",
                         address |-> address, value |-> value,
                         store |-> "none", bank |-> -1, offset |-> -1,
                         pre |-> unswitched]
    /\ UNCHANGED <<mbc, vram, wram, hram, program, meta>>

\* a call of UnswitchedController::read
UnswitchedRead ==
    /\ status = "ok"
    /\ \E address \in UnswitchedAddrs :
         LET r == Unswitched_read(unswitched, address)
         IN  /\ status' = r.status
             /\ last' = [op |-> "read", via |-> "unswitched",
                         address |-> address, value |-> r.value,
                         store |-> "none", bank |-> -1, offset |-> -1,
                         pre |-> unswitched]
    /\ UNCHANGED <<mbc, vram, wram, hram, unswitched, program, meta>>

NextUnswitched == UnswitchedWrite \/ UnswitchedRead

SpecUnswitched == InitUnswitched /\ [][NextUnswitched]_vars

(***************************************************************************)
(* The header session: one program image, parsed by either parser.  The    *)
(* images are the empty one and three with the logo and valid checksums    *)
(* (declared global checksum high byte first, low byte first, and one with *)
(* a title and the two-byte licensee form), each also with one byte        *)
(* changed, at every length around the header's end.                       *)
(***************************************************************************)
LogoCells ==
    [i \in { j \in \h0104 .. \h0133 : NINTENDO_BITMAP_EXPECTED[j - \h0103] # 0 }
        |-> NINTENDO_BITMAP_EXPECTED[i - \h0103]]

PlainHeader == (\h014D :> \hE7) @@ (\h014E :> \h16) @@ (\h014F :> \h2D)

PlainHeaderLowFirst == (\h014D :> \hE7) @@ (\h014E :> \h2D) @@ (\h014F :> \h16)

ModernHeader ==
    (\h0134 :> \h41) @@ (\h0135 :> \h42) @@ (\h0144 :> \h30) @@
    (\h0145 :> \h31) @@ (\h014B :> \h33) @@ (\h014D :> \hD0) @@
    (\h014E :> \h17) @@ (\h014F :> \h2D)

HeaderImages ==
    { EmptyArray, LogoCells @@ PlainHeader, LogoCells @@ PlainHeaderLowFirst,
      LogoCells @@ ModernHeader }

HeaderLens == { \h0000, \h014B, \h014E, \h0150, \h0151 }

PatchOffsets ==
    { \h0103, \h0104, \h0133, \h0134, \h0142, \h0143, \h0144, \h0145,
      \h014B, \h014C, \h014D, \h014E, \h014F, \h0150 }

PatchValues == { \h00, \h01, \h33, \h80, \hE7, \hFF }

\* the first len bytes of an image
Truncate(bytes, len) == [i \in { j \in DOMAIN bytes : j < len } |-> bytes[i]]

Programs ==
    LET patched == HeaderImages \cup
                   { ArrSet(b, o, v) : b \in HeaderImages,
                                       o \in PatchOffsets, v \in PatchValues }
    IN  { [len |-> n, bytes |-> Truncate(b, n)] : n \in HeaderLens, b \in patched }

InitHeader ==
    /\ InitBus
    /\ unswitched = NoController
    /\ program \in Programs
    /\ meta = MetaNone

\* the abort a parse ends the session with, "ok" when it returns
ParseStatus(m) ==
    IF m.result = "index_out_of_bounds" THEN "index_out_of_bounds" ELSE "ok"

\* a call of GameboyProgramMeta::new of cart.rs
ParseCart ==
    /\ status = "ok"
    /\ meta' = Cart_new(program)
    /\ status' = ParseStatus(Cart_new(program))
    /\ UNCHANGED <<mbc, vram, wram, hram, last, unswitched, program>>

\* a call of GameboyProgramMeta::new of cartridge.rs
ParseCartridge ==
    /\ status = "ok"
    /\ meta' = Cartridge_new(program)
    /\ status' = ParseStatus(Cartridge_new(program))
    /\ UNCHANGED <<mbc, vram, wram, hram, last, unswitched, program>>

NextHeader == ParseCart \/ ParseCartridge

SpecHeader == InitHeader /\ [][NextHeader]_vars

(***************************************************************************)
(* Properties                                                              *)
(***************************************************************************)
Low5(b) == b % 32

High2(b) == (b \div 32) % 4

\* the last operation was a completed or aborted write through `via` to an
\* address of lo..hi (hi excluded)
WroteIn(via, lo, hi) ==
    /\ last.op = "write"
    /\ last.via = via
    /\ last.address >= lo
    /\ last.address < hi

ReadIn(via, lo, hi) ==
    /\ last.op = "read"
    /\ last.via = via
    /\ last.address >= lo
    /\ last.address < hi

\* the bank a bank-select write asks for, (high2 << 5) | low5, from the
\* registers before the write and the value written
Requested ==
    IF last.address < \h4000
    THEN High2(last.pre.rom_bank_number) * 32 + Low5(last.value)
    ELSE (last.value % 4) * 32 + Low5(last.pre.rom_bank_number)

\* the remapping the specification gives for a requested bank
Remapped(b) == IF Low5(b) = 0 THEN b + 1 ELSE b

BankSelectWrite ==
    \/ WroteIn("mbc", \h2000, \h4000)
    \/ WroteIn("mbc", \h4000, \h6000) /\ last.pre.is_rom_banking_mode

\* C1: after any sequence of writes to the MBC1 controller the ROM bank
\* number mapped at the high window is never 0x00, 0x20, 0x40 or 0x60.
C1_BankNeverAliased ==
    HighWindowBank(mbc) \notin { \h00, \h20, \h40, \h60 }

\* C2: the remapping applied when a bank is selected is defined for every
\* requested bank b = (high2 << 5) | low5: the write completes and leaves
\* 0x01, 0x21, 0x41, 0x61 for b = 0x00, 0x20, 0x40, 0x60 and b itself otherwise.
C2_RemapTotal ==
    BankSelectWrite =>
        /\ status = "ok"
        /\ mbc.rom_bank_number = Remapped(Requested)

\* C3: a write to 0xA000-0xBFFF while ram_write_enabled is false is silently
\* discarded: it completes normally and leaves the RAM and every register
\* unchanged.
C3_DisabledWriteDiscarded ==
    (WroteIn("mbc", \hA000, \hC000) /\ ~last.pre.ram_write_enabled) =>
        /\ status = "ok"
        /\ mbc = last.pre

\* C4: bus read and bus write are total: every address and value ends with a
\* defined result or the explicit unhandled-region outcome (unimplemented!()
\* is taken for that outcome here), never with another abort or an unmatched
\* case.
C4_BusTotal ==
    last.via = "bus" => status \in { "ok", "unimplemented" }

\* C5: toggling the banking mode preserves the low field and clears the
\* high field: from any RomBanking state, a write of 1 and then a write of 0
\* to 0x6000-0x7FFF both complete and leave the controller in RomBanking
\* with the same low 5 bits and with high 2 bits 0.
C5_TogglePreservesLow ==
    (status = "ok" /\ mbc.is_rom_banking_mode) =>
        \A a1, a2 \in { a \in MbcAddrs : a >= \h6000 /\ a < \h8000 } :
            \A o1 \in MBC1_write(mbc, a1, \h01) :
                /\ o1.status = "ok"
                /\ ~o1.self.is_rom_banking_mode
                /\ \A o2 \in MBC1_write(o1.self, a2, \h00) :
                      /\ o2.status = "ok"
                      /\ o2.self.is_rom_banking_mode
                      /\ Low5(o2.self.rom_bank_number) = Low5(mbc.rom_bank_number)
                      /\ High2(o2.self.rom_bank_number) = 0

\* C5 witness: a reachable RomBanking state with both fields set
\* (high2 = 3, low5 = 3) on which the toggle acts and leaves bank 0x03.
C5_Witness ==
    /\ status = "ok"
    /\ mbc.is_rom_banking_mode
    /\ mbc.rom_bank_number = \h63
    /\ \E o1 \in MBC1_write(mbc, \h6000, \h01) :
         \E o2 \in MBC1_write(o1.self, \h7FFF, \h00) :
            /\ o2.status = "ok"
            /\ o2.self.is_rom_banking_mode
            /\ o2.self.rom_bank_number = \h03

\* C6: every address of 0xFF80..=0xFFFE is routed to high RAM by bus write
\* and bus read: a write of v completes and a following read of the same
\* address returns v from high RAM.
C6_HramRoundTrip ==
    WroteIn("bus", \hFF80, \hFFFF) =>
        /\ status = "ok"
        /\ LET r == GBMemory_read(Self, last.address)
           IN  /\ r.status = "ok"
               /\ r.store = "hram"
               /\ r.value = last.value

\* C7: the echo region aliases work RAM: a bus write of v to a in
\* 0xE000-0xFDFF completes and a following bus read of a-0x2000 returns v,
\* and a bus write of v to a-0x2000 completes and a following bus read of a
\* returns v.
C7_EchoAliasesWram ==
    /\ WroteIn("bus", \hE000, \hFE00) =>
          /\ status = "ok"
          /\ LET r == GBMemory_read(Self, last.address - \h2000)
             IN  r.status = "ok" /\ r.store = "wram" /\ r.value = last.value
    /\ WroteIn("bus", \hC000, \hDE00) =>
          /\ status = "ok"
          /\ LET r == GBMemory_read(Self, last.address + \h2000)
             IN  r.status = "ok" /\ r.store = "wram" /\ r.value = last.value

\* C7 witness: a non-zero byte written through the last echo address is
\* read back through work RAM, over a work RAM cell written before through
\* its own address.
C7_Witness ==
    /\ WroteIn("bus", \hFDFF, \hFE00)
    /\ last.value = \h0A
    /\ status = "ok"
    /\ GBMemory_read(Self, \hDDFF).value = \h0A
    /\ GBMemory_read(Self, \hE000).value = \h0A
    /\ GBMemory_read(Self, \hDFFF).value = \h0A

HighWindowAddrs == { a \in MbcAddrs : a >= \h4000 /\ a < \h8000 }

C9_LowWindowBank0 ==
    ReadIn("mbc", \h0000, \h4000) =>
        /\ status = "ok"
        /\ last.store = "rom"
        /\ last.bank = 0
        /\ last.offset = last.address
        /\ last.value = ArrGet(last.pre.rom_banks, <<0, last.address>>)

\* C9 witness: a read of the last address of the low window in RamBanking,
\* with ROM selector 3, RAM selector 3 and RAM writes enabled.
C9_Witness ==
    /\ ReadIn("mbc", \h3FFF, \h4000)
    /\ status = "ok"
    /\ last.bank = 0
    /\ ~mbc.is_rom_banking_mode
    /\ mbc.rom_bank_number = \h03
    /\ mbc.ram_bank_number = \h03
    /\ mbc.ram_write_enabled

\* C10 (as claimed): for a cartridge of N banks, a read of 0x4000-0x7FFF
\* returns a byte of bank (selector mod N) and never faults.
C10_BankModuloCount ==
    ReadIn("mbc", \h4000, \h8000) =>
        \A N \in 2 .. RomBankCount :
            /\ status = "ok"
            /\ last.bank = last.pre.rom_bank_number % N

\* C10 (amended): a read of a in 0x4000-0x7FFF indexes the fixed array of
\* 0x80 banks with rom_bank_number itself, not reduced modulo any bank
\* count; the index is below 0x80 and the offset a-0x4000 below 0x4000, so
\* the read never faults.
C10_ReadUsesSelector ==
    ReadIn("mbc", \h4000, \h8000) =>
        /\ status = "ok"
        /\ last.store = "rom"
        /\ last.bank = last.pre.rom_bank_number
        /\ last.bank < RomBankCount
        /\ last.offset = last.address - \h4000
        /\ last.offset < RomBankLen

\* C10 witness: a read of the high window with the largest selector the
\* model reaches, bank 0x6A.
C10_Witness ==
    /\ ReadIn("mbc", \h7FFF, \h8000)
    /\ status = "ok"
    /\ last.bank = \h6A
    /\ last.offset = \h3FFF

\* C11: a write of v to 0x0000-0x1FFF completes, sets ram_write_enabled to
\* true exactly when (v & 0x0F) = 0x0A, and leaves both selectors, the mode,
\* the ROM and the RAM unchanged.
C11_RamEnableWrite ==
    WroteIn("mbc", \h0000, \h2000) =>
        /\ status = "ok"
        /\ mbc = [last.pre EXCEPT !.ram_write_enabled = (last.value % 16 = 10)]

\* C11 witness: the value 0x2A (low nibble 0xA, high nibble set) written to
\* the last address of the range has set the latch of a controller whose
\* selector is 0x63.
C11_Witness ==
    /\ WroteIn("mbc", \h1FFF, \h2000)
    /\ last.value = \h2A
    /\ status = "ok"
    /\ ~last.pre.ram_write_enabled
    /\ mbc.ram_write_enabled
    /\ mbc.rom_bank_number = \h63

\* C12: a completed write of v to 0x4000-0x5FFF is mode-dependent: in
\* RomBanking it sets bits 5-6 of the ROM selector to v & 3 and leaves the
\* low 5 bits and ram_bank_selector unchanged; in RamBanking it sets
\* ram_bank_selector to v & 3 and leaves the ROM selector unchanged; the
\* mode and the write latch are unchanged in both.
C12_HighFieldWrite ==
    (WroteIn("mbc", \h4000, \h6000) /\ status = "ok") =>
        /\ mbc.is_rom_banking_mode = last.pre.is_rom_banking_mode
        /\ mbc.ram_write_enabled = last.pre.ram_write_enabled
        /\ IF last.pre.is_rom_banking_mode
           THEN /\ High2(mbc.rom_bank_number) = last.value % 4
                /\ Low5(mbc.rom_bank_number) = Low5(last.pre.rom_bank_number)
                /\ mbc.ram_bank_number = last.pre.ram_bank_number
           ELSE /\ mbc.ram_bank_number = last.value % 4
                /\ mbc.rom_bank_number = last.pre.rom_bank_number

\* C13: mode exclusivity in every reachable state: in RomBanking the
\* ram_bank_selector is 0; in RamBanking the high 2 bits of the ROM selector
\* are 0 and the mapped ROM bank is in 0x01..0x1F.
C13_ModeExclusive ==
    IF mbc.is_rom_banking_mode
    THEN mbc.ram_bank_number = 0
    ELSE /\ High2(mbc.rom_bank_number) = 0
         /\ HighWindowBank(mbc) \in \h01 .. \h1F

\* C14: control writes never mutate storage: a write to 0x0000-0x7FFF
\* leaves every byte of the ROM and of the external RAM unchanged, and a
\* write to any address leaves the ROM unchanged.
C14_ControlWritesKeepStorage ==
    (last.op = "write" /\ last.via = "mbc") =>
        /\ mbc.rom_banks = last.pre.rom_banks
        /\ last.address < \h8000 => mbc.ram_bank = last.pre.ram_bank

\* C14 witness: a control write that changed a register (the selector) has
\* acted on a controller whose RAM holds a byte, and the byte is still there.
C14_Witness ==
    /\ WroteIn("mbc", \h2000, \h4000)
    /\ status = "ok"
    /\ mbc.rom_bank_number # last.pre.rom_bank_number
    /\ ArrGet(mbc.ram_bank, \h7FF) = \h2A
    /\ mbc.ram_bank = last.pre.ram_bank

\* C15: over a two-bank image the controller without bank switching
\* ignores every write to 0x0000-0x7FFF, and a read of an address a of
\* 0x4000-0x7FFF returns byte a-0x4000 of bank 1 of the image whatever was
\* written before.
C15_UnswitchedIgnoresWrites ==
    /\ WroteIn("unswitched", \h0000, \h8000) =>
          (status = "ok" /\ unswitched = last.pre)
    /\ ReadIn("unswitched", \h4000, \h8000) =>
          (status = "ok" /\ last.value = ArrGet(TwoBankImage, last.address))

\* the parser that produced meta, applied to another image
Parse(parser, p) == IF parser = "cart" THEN Cart_new(p) ELSE Cartridge_new(p)

\* the image with one byte changed
WithByte(p, o, v) == [p EXCEPT !.bytes = ArrSet(p.bytes, o, v)]

\* the sum of the bytes at lo..hi (both included)
RECURSIVE SumRange(_, _, _)
SumRange(p, lo, hi) ==
    IF lo > hi THEN 0
    ELSE IF lo = hi THEN Byte(p, lo)
    ELSE LET mid == (lo + hi) \div 2
         IN  SumRange(p, lo, mid) + SumRange(p, mid + 1, hi)

\* 0 - (b[0x134] + 1) - ... - (b[0x14C] + 1) modulo 256, 25 bytes
HeaderSum25(p) == (25 * 256 - SumRange(p, \h0134, \h014C) - 25) % 256

LogoProbeOffsets == { \h0104, \h010A, \h0133 }

ProbeValues == { \h00, \h01, \h33, \h3E, \h80, \hCE, \hFF }

\* is_runable is the header checksum verdict and the logo comparison, and
\* it is the same for every declared global checksum
RunableDefinition ==
    /\ is_runable(meta) =
          /\ HeaderSum25(program) = Byte(program, \h014D)
          /\ Slice(program, \h0104, \h0134) = NINTENDO_BITMAP_EXPECTED
    /\ \A hi \in ProbeValues, lo \in ProbeValues :
          is_runable(Parse(meta.parser,
                           WithByte(WithByte(program, \h014E, hi), \h014F, lo)))
             = is_runable(meta)

\* C16 as stated: is_runnable is true exactly when the header checksum is
\* valid and the 48 logo bytes equal the reference bitmap, whatever the
\* global checksum is; changing one logo byte of a runnable image makes
\* is_runnable false and leaves the global-checksum verdict as it was.
C16_LogoFlipKeepsGlobalVerdict ==
    meta.result = "Ok" =>
        /\ RunableDefinition
        /\ is_runable(meta) =>
              \A o \in LogoProbeOffsets, v \in ProbeValues :
                 v # Byte(program, o) =>
                    LET m2 == Parse(meta.parser, WithByte(program, o, v))
                    IN  /\ ~is_runable(m2)
                        /\ is_valid_program(m2) = is_valid_program(meta)

\* C16 amended: is_runnable is true exactly when the header checksum is
\* valid and the 48 logo bytes equal the reference bitmap, whatever the
\* declared global checksum is; changing one logo byte of a runnable image
\* from b to v makes is_runnable false and moves the computed global
\* checksum by v - b (modulo 2^16), so that a valid global-checksum verdict
\* becomes invalid.
C16_LogoFlipMovesGlobalSum ==
    meta.result = "Ok" =>
        /\ RunableDefinition
        /\ is_runable(meta) =>
              \A o \in LogoProbeOffsets, v \in ProbeValues :
                 v # Byte(program, o) =>
                    LET m2 == Parse(meta.parser, WithByte(program, o, v))
                    IN  /\ ~is_runable(m2)
                        /\ m2.global_checksum_calculated =
                              (meta.global_checksum_calculated + 65536
                                 + v - Byte(program, o)) % 65536
                        /\ is_valid_program(meta) => ~is_valid_program(m2)

\* C16 witness: a parsed image that is runnable and whose global checksum
\* is valid, with a byte after the header that the global sum counts.
C16_Witness ==
    /\ meta.result = "Ok"
    /\ is_runable(meta)
    /\ is_valid_program(meta)
    /\ program.len > \h0150

\* C17: the computed global checksum is the sum modulo 2^16 of every byte
\* of the image except those at 0x14E and 0x14F, and the declared value is
\* big-endian: the byte at 0x14E is its high byte, the byte at 0x14F its low
\* byte.
C17_GlobalChecksum ==
    meta.result = "Ok" =>
        /\ meta.global_checksum_calculated =
              (SumRange(program, 0, \h014D)
                 + SumRange(program, \h0150, program.len - 1)) % 65536
        /\ meta.global_checksum =
              Byte(program, \h014E) * 256 + Byte(program, \h014F)

\* C18: the computed header checksum is acc := (acc - byte - 1) mod 256
\* folded from 0 over exactly the 25 bytes at 0x134..0x14C, and the header
\* is valid exactly when it equals the byte at 0x14D.
C18_HeaderChecksum ==
    meta.result = "Ok" =>
        /\ meta.header_checksum_calculated = HeaderSum25(program)
        /\ is_valid_header(meta) = (HeaderSum25(program) = Byte(program, \h014D))

\* C18 witness: a parsed header with a title and the 0x33 marker whose
\* checksum 0xD0 is the declared one.
C18_Witness ==
    /\ meta.result = "Ok"
    /\ Byte(program, \h0134) = \h41
    /\ Byte(program, \h014B) = \h33
    /\ meta.header_checksum_calculated = \hD0
    /\ is_valid_header(meta)

\* C19: parsing an input shorter than 0x150 bytes returns the error value
\* to the caller: it does not abort or index out of bounds, and no header
\* is produced.
C19_ShortInputIsError ==
    (meta.parser # "none" /\ program.len < \h0150) =>
        (meta.result = "Err" /\ status = "ok")

\* C20: the licensee code is the two bytes at 0x144 and 0x145, in that
\* order, when the byte at 0x14B is 0x33, and otherwise the single byte at
\* 0x14B.
C20_LicenseeCode ==
    meta.result = "Ok" =>
        meta.licensee_code =
            IF Byte(program, \h014B) = \h33
            THEN << Byte(program, \h0144), Byte(program, \h0145) >>
            ELSE << Byte(program, \h014B) >>

\* C20 witness: a parsed header in the two-byte form whose code is "01".
C20_Witness ==
    /\ meta.result = "Ok"
    /\ Byte(program, \h014B) = \h33
    /\ meta.licensee_code = << \h30, \h31 >>

\* C21: loading the RAM from save data returns to the caller: with a length
\* other than the RAM's it fails without aborting and leaves the RAM as it
\* was, with the RAM's length the RAM holds the data; serializing returns to
\* the caller with as many bytes as the RAM has.
C21_SaveLoadReturns ==
    /\ last.op = "load" =>
          /\ status = "ok"
          /\ last.value # Ram2kbLen => mbc.ram_bank = last.pre.ram_bank
    /\ last.op = "serialize" =>
          /\ status = "ok"
          /\ last.value = Ram2kbLen

\* the two-field reference model: a 5-bit low register, a 2-bit high
\* register and the mode
RefOf(self) ==
    [low5 |-> Low5(self.rom_bank_number), high2 |-> High2(self.rom_bank_number),
     rom_mode |-> self.is_rom_banking_mode]

\* one write in the reference model: 0x2000-0x3FFF stores value & 0x1F in
\* the low register, 0 as 1; 0x4000-0x5FFF in RomBanking stores value & 3
\* in the high register; a switch to RamBanking clears the high register
RefWrite(r, address, value) ==
    CASE address >= \h2000 /\ address < \h4000 ->
           [r EXCEPT !.low5 = IF value % 32 = 0 THEN 1 ELSE value % 32]
      [] address >= \h4000 /\ address < \h6000 /\ r.rom_mode ->
           [r EXCEPT !.high2 = value % 4]
      [] address >= \h6000 /\ address < \h8000 /\ value = 1 ->
           [r EXCEPT !.high2 = 0, !.rom_mode = FALSE]
      [] address >= \h6000 /\ address < \h8000 /\ value = 0 ->
           [r EXCEPT !.rom_mode = TRUE]
      [] OTHER -> r

RefBank(r) == r.high2 * 32 + r.low5

\* C22: the bank mapped at 0x4000-0x7FFF is the one of the two-field
\* reference model, (high2 << 5) | low5: it is so in the fresh controller
\* (low 1, high 0), and every completed write takes a controller that
\* agrees with the reference model to one that agrees with the reference
\* model after the same write.
C22_RefinesTwoFields ==
    /\ last.op = "none" => HighWindowBank(mbc) = RefBank([low5 |-> 1, high2 |-> 0,
                                                         rom_mode |-> TRUE])
    /\ (last.op = "write" /\ last.via = "mbc" /\ status = "ok") =>
          HighWindowBank(mbc) =
             RefBank(RefWrite(RefOf(last.pre), last.address, last.value))

\* the last operation was a write through the controller to the RAM window
\* with the write latch set
EnabledRamWrite ==
    /\ WroteIn("mbc", \hA000, \hC000)
    /\ last.pre.ram_write_enabled

\* C23: with ram_write_enabled true a write of v to a in 0xA000-0xBFFF
\* completes, stores v at offset a-0xA000 of the RAM and changes no other
\* RAM cell and no register, and a read of a then returns v; no other
\* operation changes the RAM.
C23_EnabledRamWriteStores ==
    /\ EnabledRamWrite =>
          /\ status = "ok"
          /\ mbc = [last.pre EXCEPT !.ram_bank =
                       ArrSet(last.pre.ram_bank, last.address - \hA000,
                              last.value)]
          /\ MBC1_read(mbc, last.address).status = "ok"
          /\ MBC1_read(mbc, last.address).value = last.value
    /\ (last.via = "mbc" /\ ~EnabledRamWrite) =>
          mbc.ram_bank = last.pre.ram_bank

\* the last operation reached Ram2kb::read or Ram2kb::write
Ram2kbAccess ==
    \/ ReadIn("mbc", \hA000, \hC000)
    \/ EnabledRamWrite

\* C24: an access to the 2 KiB RAM with an offset outside 0..0x7FF (0x800
\* included) or a bank other than 0 is stopped by the explicit check, so
\* the array is never indexed out of bounds; an access with an offset of
\* 0..0x7FF on bank 0 succeeds.
C24_Ram2kbBoundsChecked ==
    Ram2kbAccess =>
        IF last.address - \hA000 <= \h7FF /\ last.pre.ram_bank_number = 0
        THEN status = "ok"
        ELSE status = "panic"

\* C25: a fresh controller is in RomBanking with bank 1 mapped at
\* 0x4000-0x7FFF, RAM bank selector 0 and the write latch clear; the latch
\* is set only by a write of a value with low nibble 0xA to 0x0000-0x1FFF,
\* and while it is clear no read and no write, to 0xA000-0xBFFF or
\* elsewhere, changes the RAM.
C25_FreshController ==
    /\ last.op = "none" =>
          /\ mbc.is_rom_banking_mode
          /\ HighWindowBank(mbc) = 1
          /\ MBC1_read(mbc, \h4000).bank = 1
          /\ mbc.ram_bank_number = 0
          /\ ~mbc.ram_write_enabled
          /\ mbc.ram_bank = EmptyArray
    /\ (last.via = "mbc" /\ ~last.pre.ram_write_enabled) =>
          /\ mbc.ram_bank = last.pre.ram_bank
          /\ mbc.ram_write_enabled =>
                /\ WroteIn("mbc", \h0000, \h2000)
                /\ last.value % 16 = 10

\* C25 witness: the first operation on a fresh controller was a write of a
\* non-zero byte to the RAM window, and the RAM is still empty.
C25_Witness ==
    /\ WroteIn("mbc", \hA000, \hA800)
    /\ last.value = \h2A
    /\ last.pre = MBC1_new(Ram2kb_new)
    /\ mbc.ram_bank = EmptyArray

====
